---- MODULE Spec2Model ----
(***************************************************************************)
(* cafe-ngon: the crawler (crawler.py) that copies Instagram media into a  *)
(* MySQL store, and the API server (api.py) that serves the stored media   *)
(* from an in-memory serve-once cache.                                     *)
(***************************************************************************)
EXTENDS Integers, Sequences, FiniteSets, TLC

(* ------------------------------ bounds -------------------------------- *)
\* length of INSTAGRAM_USERNAMES after split(',')
MaxTargets == 2
\* largest value tried for NEW_USER_POST_LIMIT / EXISTING_USER_POST_LIMIT
MaxLimit == 2
\* number of medias published on the platform, all accounts together
MaxPosts == 2
\* number of crawler processes started one after the other
MaxRuns == 2
\* number of HTTP requests the API server receives
MaxRequests == 3

Users == {"u1", "u2"}

\* The medias the remote platform can show: id and the pks of its resources.
\* The pk "a" sits in two medias, so one fetch can carry a resource_id twice.
Medias ==
  { [id |-> "m1", resources |-> <<"a">>],
    [id |-> "m2", resources |-> <<"b", "a">>] }

ResourceIds == {"a", "b"}

Min(a, b) == IF a < b THEN a ELSE b

Range(s) == {s[i] : i \in 1..Len(s)}

VARIABLES
  \* Config (crawler.py)
  target_usernames, new_user_post_limit, existing_user_post_limit,
  \* remote platform: accounts whose lookup raises, feeds
  down, feed,
  \* MySQL tables
  media_data, processed_users,
  \* InstagramCrawler.run: position, locals, number of runs so far
  pc, run_processed_users, run_existing_ids, idx, runs,
  \* history of the current run: tables at its start, one entry per iteration
  start_media, start_processed, log,
  \* history: did the platform refuse the login of the current run
  login_raised,
  \* history: did the platform move since the current run started, and the
  \* number of completed passes in a row that met an unmoved platform
  moved, clean_runs,
  \* APIServer.media_cache
  media_cache,
  \* history: the rows the last load into the cache returned
  snapshot,
  \* the requests received so far, in the order their handlers started: what
  \* was asked, whether the handler loaded the cache, whether the database
  \* raised in that load, and the answer
  requests

crawlerVars == <<pc, run_processed_users, run_existing_ids, idx, runs,
                 start_media, start_processed, log, login_raised>>
histVars == <<moved, clean_runs>>
configVars == <<target_usernames, new_user_post_limit, existing_user_post_limit>>
remoteVars == <<down, feed>>
storeVars == <<media_data, processed_users>>

apiVars == <<media_cache, snapshot, requests>>

vars == <<configVars, remoteVars, storeVars, crawlerVars, histVars, apiVars>>

(* --------------------------- configuration ---------------------------- *)
\* Config.target_usernames: os.getenv(...).split(','), never empty, order kept,
\* a name may be listed twice. The accounts are alike, so the one listed
\* first is called u1.
TargetLists == {t \in UNION {[1..n -> Users] : n \in 1..MaxTargets} : t[1] = "u1"}

(* ------------------------------ the store ----------------------------- *)
\* media_data.resource_id carries a unique key (spec section 3).
MediaKeyConflict(table, row) ==
  \E i \in 1..Len(table) :
     table[i].resource_id = row.resource_id \/ table[i].id = row.id

\* executemany of INSERT IGNORE: rows are inserted one by one, a row that
\* conflicts with a row already there (or inserted just before) is skipped.
RECURSIVE InsertIgnore(_, _)
InsertIgnore(table, rows) ==
  IF rows = << >> THEN table
  ELSE InsertIgnore(IF MediaKeyConflict(table, Head(rows)) THEN table
                    ELSE Append(table, Head(rows)),
                    Tail(rows))

\* a plain multi-row insert that keeps every row
save_media_items_keep_all(table, items) == table \o items

\* DataManager.save_media_items
save_media_items(table, items) == InsertIgnore(table, items)

\* DataManager.add_processed_user: INSERT IGNORE on the one-column table
add_processed_user(table, username) == table \cup {username}

\* DataManager.get_processed_users
get_processed_users(table) == table

\* a loader that reads the ids of no row
get_existing_resource_ids_none(table) == {}

\* DataManager.get_existing_resource_ids
get_existing_resource_ids(table) == {table[i].resource_id : i \in 1..Len(table)}

(* ------------------------- the remote platform ------------------------ *)
\* Client.user_medias(user_id, amount): the amount most recent medias
user_medias(f, limit) == SubSeq(f, 1, Min(limit, Len(f)))

\* [... for media in medias for resource in media.resources]
RECURSIVE Resources(_)
Resources(medias) ==
  IF medias = << >> THEN << >>
  ELSE LET m == Head(medias)
       IN  [i \in 1..Len(m.resources) |-> [media_id |-> m.id, pk |-> m.resources[i]]]
           \o Resources(Tail(medias))

(* ----------------------------- the crawler ---------------------------- *)
\* the limit taken the wrong way round
fetch_limit_swapped(is_processed, existing_limit, new_limit) ==
  IF is_processed THEN new_limit ELSE existing_limit

\* process_user, lines 138-139
fetch_limit(is_processed, existing_limit, new_limit) ==
  IF is_processed THEN existing_limit ELSE new_limit

\* process_user, lines 142-153: one MediaItem per resource, ids from uuid4
MediaItems(username, medias, base) ==
  LET rs == Resources(medias)
  IN  [i \in 1..Len(rs) |->
         [id |-> base \o <<i>>, user_id |-> rs[i].media_id, user_name |-> username,
          resource_id |-> rs[i].pk, resource_url |-> "url_" \o rs[i].pk,
          resource_type |-> 1]]

\* a filter that lets every item through
new_items_unfiltered(items, existing_ids) == items

\* run, lines 167-168
new_items_of(items, existing_ids) ==
  SelectSeq(items, LAMBDA item : item.resource_id \notin existing_ids)

\* a login whose failure is not noticed
login_always(accepted) == TRUE

\* InstagramCrawler.login: True when the platform accepts, False when it raises
login(accepted) == accepted

\* run, lines 159-163: a new process logs in and loads the two snapshots.
\* get_processed_users and get_existing_resource_ids catch nothing: when the
\* database raises in one of them the exception leaves run and main.
RunStart(accepted, db_ok) ==
  /\ pc \in {"idle", "done", "aborted", "crashed"}
  /\ runs < MaxRuns
  /\ runs' = runs + 1
  /\ start_media' = media_data
  /\ start_processed' = processed_users
  /\ log' = << >>
  /\ moved' = FALSE
  /\ login_raised' = ~accepted
  /\ IF ~login(accepted)
       THEN /\ pc' = "aborted"
            /\ UNCHANGED <<run_processed_users, run_existing_ids, idx>>
       ELSE IF ~db_ok
       THEN /\ pc' = "crashed"
            /\ UNCHANGED <<run_processed_users, run_existing_ids, idx>>
       ELSE /\ pc' = "loop"
            /\ run_processed_users' = get_processed_users(processed_users)
            /\ run_existing_ids' = get_existing_resource_ids(media_data)
            /\ idx' = 1
  /\ UNCHANGED <<configVars, remoteVars, storeVars, clean_runs, apiVars>>

\* the error of process_user stops the loop
after_error_stop(i) == Len(target_usernames) + 1

\* run, line 165: the loop goes on with the next username after an error
after_error(i) == i + 1

\* run, line 166: `if items := ...` is false for None and for an empty list
nonempty(items) == items # << >>

\* run, lines 165-176: one iteration of the loop over target_usernames
RunUser ==
  /\ pc = "loop"
  /\ idx <= Len(target_usernames)
  /\ LET username == target_usernames[idx]
         is_processed == username \in run_processed_users
         limit == fetch_limit(is_processed, existing_user_post_limit,
                              new_user_post_limit)
         entry == [username |-> username, is_processed |-> is_processed,
                   in_table |-> username \in processed_users, limit |-> limit]
     IN IF username \in down
          THEN \* process_user caught an exception and returned None
               /\ log' = Append(log, entry @@ [ok |-> FALSE, fetched |-> << >>,
                                               batch |-> << >>, ignored |-> 0,
                                               marked |-> FALSE])
               /\ idx' = after_error(idx)
               /\ UNCHANGED storeVars
          ELSE LET medias == user_medias(feed[username], limit)
                   items == MediaItems(username, medias, <<runs, idx>>)
                   new_items == new_items_of(items, run_existing_ids)
                   entered == nonempty(items)
                   saved == IF entered /\ new_items # << >>
                              THEN save_media_items(media_data, new_items)
                              ELSE media_data
                   mark == entered /\ username \notin run_processed_users
               IN /\ media_data' = saved
                  /\ processed_users' =
                       IF mark THEN add_processed_user(processed_users, username)
                       ELSE processed_users
                  /\ log' = Append(log, entry @@
                       [ok |-> TRUE,
                        fetched |-> [i \in 1..Len(items) |-> items[i].resource_id],
                        batch |-> IF entered
                                    THEN [i \in 1..Len(new_items) |-> new_items[i].resource_id]
                                    ELSE << >>,
                        ignored |-> Len(media_data) + (IF entered THEN Len(new_items) ELSE 0)
                                    - Len(saved),
                        marked |-> mark])
                  /\ idx' = idx + 1
  /\ UNCHANGED <<configVars, remoteVars, pc, run_processed_users,
                 run_existing_ids, runs, start_media, start_processed,
                 login_raised, histVars, apiVars>>

\* run, line 178: the loop is over, the connection is closed
RunEnd ==
  /\ pc = "loop"
  /\ idx > Len(target_usernames)
  /\ pc' = "done"
  /\ clean_runs' = IF moved THEN 0 ELSE clean_runs + 1
  /\ UNCHANGED <<configVars, remoteVars, storeVars, run_processed_users,
                 run_existing_ids, idx, runs, start_media,
                 start_processed, log, login_raised, moved, apiVars>>

(* ----------------------- the platform's own moves --------------------- *)
RECURSIVE SumLen(_, _)
SumLen(f, S) ==
  IF S = {} THEN 0
  ELSE LET u == CHOOSE x \in S : TRUE IN Len(f[u]) + SumLen(f, S \ {u})

Posts == SumLen(feed, Users)

\* history: the platform moved
Moved == moved' = TRUE /\ clean_runs' = 0

\* an account publishes a media: it becomes the most recent one of its feed
RemotePost(u, m) ==
  /\ Posts < MaxPosts
  /\ m \notin Range(feed[u])
  /\ feed' = [feed EXCEPT ![u] = <<m>> \o @]
  /\ Moved
  /\ UNCHANGED <<configVars, down, storeVars, crawlerVars, apiVars>>

\* an account becomes unreachable (lookup raises) or reachable again
RemoteFlip(u) ==
  /\ down' = IF u \in down THEN down \ {u} ELSE down \cup {u}
  /\ Moved
  /\ UNCHANGED <<configVars, feed, storeVars, crawlerVars, apiVars>>

(* --------------------------- the API server --------------------------- *)
\* the ids a client asks for: the stored ones and one that no record carries
ImageIds == ResourceIds \cup {"zz"}

\* the orders random.shuffle can leave a list in
Shuffles(s) ==
  {[i \in 1..Len(s) |-> s[p[i]]] :
     p \in {q \in [1..Len(s) -> 1..Len(s)] : \A i, j \in 1..Len(s) : q[i] = q[j] => i = j}}

\* a load that hands the rows on although the database raised
load_data_despite_error(db_ok) == media_data

\* api.py DataManager.load_data: the rows of media_data, or [] when the
\* database raises
load_data(db_ok) == IF db_ok THEN media_data ELSE << >>

\* a handler that loads whatever the cache holds
needs_load_always(cache) == TRUE

\* get_random_media line 152, get_media line 162: `if not self.media_cache`
needs_load(cache) == cache = << >>

\* a removal that keeps the cache as it is
evict_nothing(cache, image_id) == cache

\* get_media, lines 173-175
evict(cache, image_id) == SelectSeq(cache, LAMBDA m : m.resource_id # image_id)

\* a lookup that takes any id for cached
cached_always(cache, image_id) == TRUE

\* a lookup that compares the first record only
cached_first(cache, image_id) ==
  cache # << >> /\ cache[1].resource_id = image_id

\* get_media, lines 166-171: is there a cached record with this resource_id
cached(cache, image_id) == \E i \in 1..Len(cache) : cache[i].resource_id = image_id

\* a pick among the stored rows instead of the cached ones
random_choice_from_store(cache) == Range(media_data)

\* get_random_media line 157: the records random.choice can return
random_choice(cache) == Range(cache)

\* a pick that takes the record out of the cache, as get_media does
after_choice_evicted(cache, media) == evict(cache, media.resource_id)

\* get_random_media lines 157-158: the cache after the pick; media_cache is
\* not assigned
after_choice(cache, media) == cache

\* history: the rows a handler loaded, when it did load
Loaded(db_ok) ==
  snapshot' = IF needs_load(media_cache) THEN load_data(db_ok) ELSE snapshot

\* get_random_media, lines 151-158
get_random_media(db_ok) ==
  /\ Len(requests) < MaxRequests
  /\ Loaded(db_ok)
  /\ \E loaded \in (IF needs_load(media_cache) THEN Shuffles(load_data(db_ok))
                    ELSE {media_cache}) :
       IF loaded = << >>
         THEN /\ media_cache' = loaded
              /\ requests' = Append(requests,
                   [op |-> "random", id |-> "", refilled |-> needs_load(media_cache),
                    db_raised |-> needs_load(media_cache) /\ ~db_ok,
                    status |-> 404])
         ELSE \E media \in random_choice(loaded) :
                /\ media_cache' = after_choice(loaded, media)
                /\ requests' = Append(requests,
                     [op |-> "random", id |-> media.resource_id,
                      refilled |-> needs_load(media_cache),
                    db_raised |-> needs_load(media_cache) /\ ~db_ok, status |-> 200])
  /\ UNCHANGED <<configVars, remoteVars, storeVars, crawlerVars, histVars>>

\* api.py DataManager.remove_media: DELETE FROM media_data WHERE resource_id
remove_media(table, resource_id) ==
  SelectSeq(table, LAMBDA row : row.resource_id # resource_id)

\* a get_media that also deletes the served row from the table
stored_after_get_removed(table, image_id) == remove_media(table, image_id)

\* get_media, lines 161-177: the table after the request; remove_media is
\* defined in api.py and called nowhere
stored_after_get(table, image_id) == table

\* get_media, lines 161-175, up to the await of the upstream fetch
get_media(image_id, db_ok) ==
  /\ Len(requests) < MaxRequests
  /\ Loaded(db_ok)
  /\ \E loaded \in (IF needs_load(media_cache) THEN Shuffles(load_data(db_ok))
                    ELSE {media_cache}) :
       IF cached(loaded, image_id)
         THEN /\ media_cache' = evict(loaded, image_id)
              /\ requests' = Append(requests,
                   [op |-> "get", id |-> image_id,
                    refilled |-> needs_load(media_cache),
                    db_raised |-> needs_load(media_cache) /\ ~db_ok, status |-> 0])
         ELSE /\ media_cache' = loaded
              /\ requests' = Append(requests,
                   [op |-> "get", id |-> image_id,
                    refilled |-> needs_load(media_cache),
                    db_raised |-> needs_load(media_cache) /\ ~db_ok, status |-> 404])
  /\ media_data' = stored_after_get(media_data, image_id)
  /\ UNCHANGED <<configVars, remoteVars, processed_users, crawlerVars, histVars>>

\* get_media line 177, ImageService.fetch_image: the upstream answers request
\* k, the image is streamed (200), or the fetch raises and the caller gets 500
fetch_image(k, upstream_ok) ==
  /\ k \in 1..Len(requests)
  /\ requests[k].op = "get"
  /\ requests[k].status = 0
  /\ requests' = [requests EXCEPT ![k].status = IF upstream_ok THEN 200 ELSE 500]
  /\ UNCHANGED <<configVars, remoteVars, storeVars, crawlerVars, histVars,
                 media_cache, snapshot>>

\* stats taken from the cached records
stats_data_cached(db_ok) == media_cache

\* get_stats line 181: the rows the stats are computed from
stats_data(db_ok) == load_data(db_ok)

\* get_stats, lines 180-187
get_stats(db_ok) ==
  /\ Len(requests) < MaxRequests
  /\ LET data == stats_data(db_ok)
         users == {data[i].user_name : i \in 1..Len(data)}
     IN  requests' = Append(requests,
           [op |-> "stats", id |-> "", refilled |-> FALSE, db_raised |-> ~db_ok,
            status |-> 200,
            total_images |-> Len(data), unique_users |-> Cardinality(users),
            users |-> users])
  /\ UNCHANGED <<configVars, remoteVars, storeVars, crawlerVars, histVars,
                 media_cache, snapshot>>

Api ==
  \/ \E db_ok \in BOOLEAN : get_random_media(db_ok)
  \/ \E image_id \in ImageIds, db_ok \in BOOLEAN : get_media(image_id, db_ok)
  \/ \E k \in 1..MaxRequests, upstream_ok \in BOOLEAN : fetch_image(k, upstream_ok)
  \/ \E db_ok \in BOOLEAN : get_stats(db_ok)


\* empty tables, no crawler started yet, the API server just constructed
Fresh ==
  /\ media_data = << >>
  /\ processed_users = {}
  /\ pc = "idle"
  /\ run_processed_users = {}
  /\ run_existing_ids = {}
  /\ idx = 1
  /\ runs = 0
  /\ start_media = << >>
  /\ start_processed = {}
  /\ log = << >>
  /\ login_raised = FALSE
  /\ moved = FALSE
  /\ clean_runs = 0
  /\ media_cache = << >>
  /\ snapshot = << >>
  /\ requests = << >>

Init ==
  /\ target_usernames \in TargetLists
  /\ new_user_post_limit \in 1..MaxLimit
  /\ existing_user_post_limit \in 1..MaxLimit
  /\ down \in SUBSET Users
  /\ feed = [u \in Users |-> << >>]
  /\ Fresh

Next ==
  \/ \E accepted, db_ok \in BOOLEAN : RunStart(accepted, db_ok)
  \/ RunUser
  \/ RunEnd
  \/ \E u \in Users, m \in Medias : RemotePost(u, m)
  \/ \E u \in Users : RemoteFlip(u)

Spec == Init /\ [][Next]_vars

\* The API server next to a crawler of one configuration (the limits are the
\* defaults of crawler.py lines 50 and 54, scaled), which fills the store
\* from two accounts that have published already: the store holds no row,
\* then the row of "a", then the rows of "a" and "b", of two user_names.
ApiInit ==
  /\ target_usernames = <<"u1", "u2">>
  /\ new_user_post_limit = 2
  /\ existing_user_post_limit = 1
  /\ down = {}
  /\ feed = [u1 |-> <<[id |-> "m1", resources |-> <<"a">>]>>,
             u2 |-> <<[id |-> "m2", resources |-> <<"b", "a">>]>>]
  /\ Fresh

ApiNext ==
  \/ Api
  \/ \E db_ok \in BOOLEAN : RunStart(TRUE, db_ok)
  \/ RunUser
  \/ RunEnd

ApiSpec == ApiInit /\ [][ApiNext]_vars

(* ======================= properties of the crawler ===================== *)
ResourceIdsOf(table) == {table[i].resource_id : i \in 1..Len(table)}

NewOnly(fetched, table) ==
  SelectSeq(fetched, LAMBDA r : r \notin ResourceIdsOf(table))

\* the resource_ids the fetches of the current run handed to the store
Handed == UNION {Range(log[k].batch) : k \in 1..Len(log)}

\* C1: in a pass, the batch handed to the store for a user is exactly the
\* fetched resources whose resource_id was not stored when the pass started;
\* no handed record has a resource_id stored at the start of the pass.
C1_BatchIsTheNewResources ==
  \A k \in 1..Len(log) :
     /\ log[k].batch = NewOnly(log[k].fetched, start_media)
     /\ Range(log[k].batch) \cap ResourceIdsOf(start_media) = {}

\* a fetch that met both stored and new resources handed over the new ones
C1_Witness ==
  \E k \in 1..Len(log) :
     /\ log[k].batch # << >>
     /\ Range(log[k].fetched) \cap ResourceIdsOf(start_media) # {}

\* C2: no two records of media_data share a resource_id, also when a pass
\* hands the same resource_id over twice; the second insert is skipped.
C2_ResourceIdUnique ==
  \A i, j \in 1..Len(media_data) :
     media_data[i].resource_id = media_data[j].resource_id => i = j

\* a batch carried a resource_id that was stored by then, and it was skipped
C2_Witness ==
  \E k \in 1..Len(log) : log[k].batch # << >> /\ log[k].ignored > 0

\* C3: every fetch uses existing_limit when the username is in the processed
\* set loaded at the start of the run, and new_user_limit when it is not.
C3_LimitBySnapshot ==
  \A k \in 1..Len(log) :
     log[k].limit = IF log[k].username \in start_processed
                      THEN existing_user_post_limit
                      ELSE new_user_post_limit

\* one run fetched a processed and an unprocessed user with different limits
C3_Witness ==
  /\ new_user_post_limit # existing_user_post_limit
  /\ \E j, k \in 1..Len(log) :
        /\ log[j].username \in start_processed
        /\ log[k].username \notin start_processed

\* C4: a fetch that raises persists nothing and writes no marker, and the
\* loop goes on: every configured username is fetched, in order, and each
\* successful fetch hands over its new resources whatever failed before it;
\* the tables hold what they held at the start plus what those fetches gave.
C4_FailureSkipsOneUser ==
  /\ Len(log) <= Len(target_usernames)
  /\ \A k \in 1..Len(log) :
        /\ log[k].username = target_usernames[k]
        /\ ~log[k].ok => log[k].batch = << >> /\ ~log[k].marked
        /\ log[k].ok => log[k].batch = NewOnly(log[k].fetched, start_media)
  /\ pc = "done" => Len(log) = Len(target_usernames)
  /\ pc \in {"loop", "done"} =>
        /\ ResourceIdsOf(media_data) = ResourceIdsOf(start_media) \cup Handed
        /\ processed_users = start_processed \cup
              {log[k].username : k \in {i \in 1..Len(log) : log[i].ok /\ log[i].marked}}

\* a finished run in which a fetch raised and a later one stored new records
C4_Witness ==
  /\ pc = "done"
  /\ \E j, k \in 1..Len(log) :
        j < k /\ ~log[j].ok /\ log[k].ok /\ log[k].batch # << >> /\ log[k].marked

\* C5: a run whose login is refused fetches nothing and leaves media_data
\* and processed_users as they were.
C5_LoginFailureTouchesNothing ==
  login_raised =>
     /\ log = << >>
     /\ media_data = start_media
     /\ processed_users = start_processed

\* a refused login with records and markers in the store
C5_Witness ==
  login_raised /\ media_data # << >> /\ processed_users # {}

\* C6: after a run, every username whose fetch completed without error is
\* in processed_users, whatever the fetch returned.
C6_EveryFetchedUserMarked ==
  pc = "done" =>
     \A k \in 1..Len(log) : log[k].ok => log[k].username \in processed_users

\* C7 as written: a fetch of a username that is in the processed_users table
\* when the fetch is made uses existing_limit.
C7_MarkedInStoreUsesExistingLimit ==
  \A k \in 1..Len(log) :
     log[k].in_table => log[k].limit = existing_user_post_limit

\* C7 as amended: a fetch of a username that was in the table when the run
\* started uses existing_limit; a username marked during the run keeps
\* new_user_limit for the rest of that run.
C7_MarkedBeforeRunUsesExistingLimit ==
  \A k \in 1..Len(log) :
     /\ log[k].username \in start_processed =>
           log[k].limit = existing_user_post_limit
     /\ log[k].in_table /\ log[k].username \notin start_processed =>
           log[k].limit = new_user_post_limit

\* a second run fetches a user the first run marked, the limits differing
C7_Witness ==
  /\ runs >= 2
  /\ new_user_post_limit # existing_user_post_limit
  /\ \E k \in 1..Len(log) :
        log[k].ok /\ log[k].username \in start_processed /\ log[k].fetched # << >>

\* C8 as written: the second of two passes over an unmoved platform hands
\* nothing to the store and leaves the stored resource_ids as they were.
C8_SecondPassAddsNothing ==
  pc = "done" /\ clean_runs >= 2 =>
     /\ \A k \in 1..Len(log) : log[k].batch = << >>
     /\ ResourceIdsOf(media_data) = ResourceIdsOf(start_media)

\* C8 as amended: the same, when existing_limit is not above new_user_limit.
C8_SecondPassAddsNothingUnderSmallerLimit ==
  existing_user_post_limit <= new_user_post_limit => C8_SecondPassAddsNothing

\* a second pass that fetched stored resources again, with the smaller limit
C8_Witness ==
  /\ pc = "done" /\ clean_runs >= 2
  /\ existing_user_post_limit < new_user_post_limit
  /\ \E k \in 1..Len(log) : log[k].fetched # << >> /\ log[k].is_processed

(* ====================== properties of the API server =================== *)
Found(r) == r.op = "get" /\ r.status # 404

\* C9: of two successive get-by-id requests for one id, when the first found
\* the record and the second did not load the cache, the second is answered
\* not-found.
C9_ServedOnce ==
  \A k \in 1..(Len(requests) - 1) :
     ( /\ Found(requests[k])
       /\ requests[k + 1].op = "get"
       /\ requests[k + 1].id = requests[k].id
       /\ ~requests[k + 1].refilled )
     => requests[k + 1].status = 404

\* the first request streamed the image, the second met a cache that still
\* held other records
C9_Witness ==
  \E k \in 1..(Len(requests) - 1) :
     /\ requests[k].op = "get" /\ requests[k].status = 200
     /\ requests[k + 1].op = "get"
     /\ requests[k + 1].id = requests[k].id
     /\ ~requests[k + 1].refilled
     /\ media_cache # << >>

\* C10: a handler loads the cache only when it finds it empty, and no step
\* adds a record to a cache that is not empty.
C10_FilledOnlyWhenEmpty ==
  [][ /\ media_cache # << >> => Range(media_cache') \subseteq Range(media_cache)
      /\ ( /\ Len(requests') > Len(requests)
           /\ requests'[Len(requests')].refilled ) => media_cache = << >>
    ]_vars

\* the cache was loaded, shrank by a get-by-id and was then read again
\* without a load
C10_Witness ==
  \E j, k \in 1..Len(requests) :
     /\ j < k
     /\ requests[j].refilled /\ Found(requests[j])
     /\ ~requests[k].refilled /\ requests[k].op = "random" /\ requests[k].status = 200

\* no request after request k loaded the cache
NoLoadSince(k) == \A j \in (k + 1)..Len(requests) : ~requests[j].refilled

\* C11: every cached record is one of the rows the last load returned, and
\* the resource_id the random pick returns is the id of such a row.
C11_CacheWithinSnapshot ==
  /\ Range(media_cache) \subseteq Range(snapshot)
  /\ \A k \in 1..Len(requests) :
        requests[k].op = "random" /\ requests[k].status = 200 /\ NoLoadSince(k)
        => requests[k].id \in ResourceIdsOf(snapshot)

\* a pick from a cache that lags behind the store: a row was stored after
\* the load
C11_Witness ==
  /\ Len(media_data) > Len(snapshot)
  /\ \E k \in 1..Len(requests) :
        /\ requests[k].op = "random" /\ requests[k].status = 200
        /\ ~requests[k].refilled /\ NoLoadSince(k)

\* the step is the handler of a new request with this op
Handles(op) ==
  /\ Len(requests') = Len(requests) + 1
  /\ requests'[Len(requests')].op = op

SameRows(s, t) == Len(s) = Len(t) /\ Range(s) = Range(t)

\* C12: the random pick removes nothing: a cache that is not empty is the
\* same after the request; an empty cache holds afterwards exactly the rows
\* the load returned, which are the rows of the store or, when the database
\* raised, none.
C12_RandomPickKeepsCache ==
  [][ Handles("random") =>
        /\ media_cache # << >> => media_cache' = media_cache
        /\ media_cache = << >> =>
              /\ SameRows(media_cache', snapshot')
              /\ snapshot' \in {media_data, << >>}
    ]_vars

\* a random pick that loaded two rows, then one that found them cached
C12_Witness ==
  /\ Len(media_cache) = 2
  /\ \E j, k \in 1..Len(requests) :
        /\ j < k
        /\ requests[j].op = "random" /\ requests[j].refilled
        /\ requests[k].op = "random" /\ ~requests[k].refilled

\* C13: no request to the API changes media_data or processed_users; the
\* removal by get-by-id is a removal from media_cache only.
C13_ServingLeavesStore ==
  [][ requests' # requests =>
        media_data' = media_data /\ processed_users' = processed_users ]_vars

\* a record served by id and gone from the cache is still a row of the store
C13_Witness ==
  /\ processed_users # {}
  /\ \E k \in 1..Len(requests) :
        /\ Found(requests[k]) /\ NoLoadSince(k)
        /\ requests[k].id \notin ResourceIdsOf(media_cache)
        /\ requests[k].id \in ResourceIdsOf(media_data)

\* C14: a get-by-id whose id no cached record carries, the rows just loaded
\* counting as cached, is answered not-found and leaves the cached records
\* as they are; a not-found answer stays one, no upstream fetch follows it.
C14_UnknownIdNotFound ==
  [][ /\ Handles("get") =>
           LET e == requests'[Len(requests')]
               base == IF media_cache = << >> THEN snapshot' ELSE media_cache
           IN  e.id \notin ResourceIdsOf(base) =>
                  e.status = 404 /\ SameRows(media_cache', base)
      /\ \A k \in 1..Len(requests) :
            requests[k].status = 404 =>
               Len(requests') >= k /\ requests'[k] = requests[k]
    ]_vars

\* an id no row carries was asked for while two records were cached
C14_Witness ==
  /\ Len(media_cache) = 2
  /\ \E k \in 1..Len(requests) :
        /\ requests[k].op = "get" /\ requests[k].status = 404
        /\ requests[k].id \notin ResourceIdsOf(media_data)
        /\ k < Len(requests)

(* ============================ storage errors =========================== *)
\* a load of the API in which the database raised gave the handler no rows:
\* the stats are zero, the random pick and the get-by-id find nothing
ApiReadDegrades ==
  \A k \in 1..Len(requests) :
     requests[k].db_raised =>
        IF requests[k].op = "stats"
          THEN /\ requests[k].status = 200
               /\ requests[k].total_images = 0
               /\ requests[k].unique_users = 0
               /\ requests[k].users = {}
          ELSE requests[k].status = 404

\* C15 as written: on no read path does a storage error reach the caller:
\* the API's load gives no rows, and run does not end by the exception of
\* get_processed_users or get_existing_resource_ids.
C15_ReadErrorsDegrade ==
  /\ ApiReadDegrades
  /\ pc # "crashed"

\* C15 as amended: the API's load gives no rows; in the crawler the error of
\* the two loads leaves run, which has then fetched and written nothing.
C15_OnlyApiReadErrorsDegrade ==
  /\ ApiReadDegrades
  /\ pc = "crashed" =>
        /\ log = << >>
        /\ media_data = start_media
        /\ processed_users = start_processed

\* the database raised in a load of the API while the store held rows, and
\* in the loads of a crawler run
C15_Witness ==
  /\ pc = "crashed"
  /\ media_data # << >>
  /\ \E j, k \in 1..Len(requests) :
        /\ requests[j].db_raised /\ requests[j].op = "stats"
        /\ requests[k].db_raised /\ requests[k].op = "get"
        /\ requests[k].id \in ResourceIdsOf(media_data)

(* ================================ stats ================================ *)
UserNamesOf(table) == {table[i].user_name : i \in 1..Len(table)}

\* the answer of the stats request taken in this step counts these rows
StatsCount(e, table) ==
  /\ e.status = 200
  /\ e.total_images = Len(table)
  /\ e.users = UserNamesOf(table)
  /\ e.unique_users = Cardinality(e.users)

C17_FoundAgainOnlyAfterLoad ==
  \A j, k \in 1..Len(requests) :
     ( /\ j < k
       /\ Found(requests[j]) /\ Found(requests[k])
       /\ requests[j].id = requests[k].id )
     => \E i \in (j + 1)..k : requests[i].refilled

\* the store holds one row; the first get-by-id still waits for the upstream
\* when a second one for the same id is served, and a third request loads
\* the removed record into the cache again
C17_Witness ==
  /\ Len(media_data) = 1
  /\ Len(requests) = 3
  /\ requests[1].op = "get" /\ requests[1].status = 0
  /\ requests[2].op = "get" /\ requests[2].status = 200
  /\ requests[2].id = requests[1].id
  /\ requests[3].refilled
  /\ requests[1].id \in ResourceIdsOf(media_cache)

\* C18: get-by-id removes the record before the upstream fetch: while the
\* request waits for the upstream, and after the upstream failed and the
\* caller got the server error, the record is not cached and a repeated
\* request for the id is answered not-found, as long as no load happened.
C18_RemovedBeforeUpstream ==
  \A k \in 1..Len(requests) :
     ( /\ requests[k].op = "get"
       /\ requests[k].status \in {0, 500}
       /\ NoLoadSince(k) )
     => /\ requests[k].id \notin ResourceIdsOf(media_cache)
        /\ \A j \in (k + 1)..Len(requests) :
              requests[j].op = "get" /\ requests[j].id = requests[k].id
              => requests[j].status = 404

\* the upstream failed, the row is still stored, and the repeated request
\* met a cache holding another record
C18_Witness ==
  \E k \in 1..(Len(requests) - 1) :
     /\ requests[k].op = "get" /\ requests[k].status = 500
     /\ requests[k + 1].op = "get" /\ requests[k + 1].id = requests[k].id
     /\ requests[k + 1].status = 404
     /\ requests[k].id \in ResourceIdsOf(media_data)
     /\ media_cache # << >>

\* C19: a get-by-id for the id the random pick just returned, no request in
\* between, finds the record without a load, and afterwards no cached
\* record carries that resource_id.
C19_PickedIdIsFound ==
  \A k \in 1..(Len(requests) - 1) :
     ( /\ requests[k].op = "random" /\ requests[k].status = 200
       /\ requests[k + 1].op = "get"
       /\ requests[k + 1].id = requests[k].id )
     => /\ Found(requests[k + 1])
        /\ ~requests[k + 1].refilled
        /\ NoLoadSince(k + 1) => requests[k].id \notin ResourceIdsOf(media_cache)

\* the pick came from a cache of two records and the get-by-id left one
C19_Witness ==
  /\ Len(requests) >= 2
  /\ LET k == Len(requests) - 1
     IN  /\ requests[k].op = "random" /\ requests[k].status = 200
         /\ requests[k + 1].op = "get" /\ requests[k + 1].id = requests[k].id
         /\ requests[k + 1].status = 200
  /\ Len(media_cache) = 1
  /\ Len(snapshot) = 2

====
